---- MODULE Spec2Model ----
(***************************************************************************)
(* A model of cli-sandbox (src/src/lib.rs): Project, its file operations,  *)
(* and the WithStdout checks on a captured std::process::Output.           *)
(*                                                                         *)
(* Bytes are integers 0..255, a Rust str is the sequence of its code       *)
(* points, a path is the sequence of its components.                       *)
(*                                                                         *)
(* Four specifications share the variables:                                *)
(*   Spec        Project::new / drop on the temporary root                 *)
(*   SpecFile    new_file / check_file on one Project's directory          *)
(*   SpecBin     is_bin on one Project's directory                         *)
(*   SpecOutput  the WithStdout methods on one captured Output             *)
(***************************************************************************)
EXTENDS Integers, Sequences, FiniteSets, TLC

VARIABLES
    dirs,       \* names of the directories that exist in the temporary root
    projects,   \* live Project handle -> name of its TempDir
    fs,         \* the tree under one Project's directory: path -> node
    output,     \* the captured Output: [stdout, stderr : bytes]
    last,       \* the call that returned last, with its arguments and outcome
    env,        \* the process environment: name of a set variable -> value
    cwd,        \* the process working directory: OrigDir or a TempDir name
    cfg,        \* [profile: the cargo feature, serialized: the caller's
                \*  discipline]; never changes
    th,         \* thread -> [pc, prefix, cwd0, env0], its place in clean_env
    hist        \* what was called last of init() and a clean_env that
                \* removes SANDBOX_TARGET_DIR or SANDBOX_PKG_NAME

\* The process-wide state and the threads.
proc == <<env, cwd, cfg, th, hist>>

vars == <<dirs, projects, fs, output, last, proc>>

(***************************************************************************)
(* Bounds                                                                  *)
(***************************************************************************)
NumTmpNames == 4     \* names tempdir() can draw
MaxProjects == 3     \* Project handles a test holds at once
MaxTextLen == 2      \* chars of a text given to new_file / check_file
MaxFileLen == 9      \* bytes of a file the subject program writes
MaxOutputLen == 3    \* bytes of stdout and stderr together
MaxLitLen == 2       \* chars of a literal given to with_stdout / with_stderr

(***************************************************************************)
(* Sequences                                                               *)
(***************************************************************************)
SeqsUpTo(S, n) == UNION {[1..k -> S] : k \in 0..n}

Take(s, n) == SubSeq(s, 1, n)

(***************************************************************************)
(* str::from_utf8 and str::as_bytes                                        *)
(***************************************************************************)
IsCont(b) == b >= 128 /\ b <= 191

\* Number of bytes of the UTF-8 sequence a leading byte announces; 0 when
\* the byte cannot lead one.
Utf8Width(b) ==
    IF b < 128 THEN 1
    ELSE IF b >= 194 /\ b <= 223 THEN 2
    ELSE IF b >= 224 /\ b <= 239 THEN 3
    ELSE IF b >= 240 /\ b <= 244 THEN 4
    ELSE 0

\* Whether bytes[i..] starts with one well-formed UTF-8 sequence.
Utf8SeqOk(bytes, i) ==
    LET w == Utf8Width(bytes[i])
        b1 == bytes[i]
    IN  /\ w > 0
        /\ i + w - 1 <= Len(bytes)
        /\ \A k \in 1..(w - 1) : IsCont(bytes[i + k])
        /\ (b1 = 224 => bytes[i + 1] >= 160)
        /\ (b1 = 237 => bytes[i + 1] <= 159)
        /\ (b1 = 240 => bytes[i + 1] >= 144)
        /\ (b1 = 244 => bytes[i + 1] <= 143)

\* The code point of the well-formed sequence at bytes[i..].
Utf8CodePoint(bytes, i) ==
    LET w == Utf8Width(bytes[i])
        b1 == bytes[i]
        c(k) == bytes[i + k] - 128
    IN  CASE w = 1 -> b1
          [] w = 2 -> (b1 - 192) * 64 + c(1)
          [] w = 3 -> (b1 - 224) * 4096 + c(1) * 64 + c(2)
          [] OTHER -> (b1 - 240) * 262144 + c(1) * 4096 + c(2) * 64 + c(3)

RECURSIVE Utf8DecodeFrom(_, _)
\* [ok |-> FALSE] on the first ill-formed sequence, else the chars from i on.
Utf8DecodeFrom(bytes, i) ==
    IF i > Len(bytes) THEN [ok |-> TRUE, val |-> <<>>]
    ELSE IF ~Utf8SeqOk(bytes, i) THEN [ok |-> FALSE, val |-> <<>>]
    ELSE LET rest == Utf8DecodeFrom(bytes, i + Utf8Width(bytes[i]))
         IN  IF rest.ok
             THEN [ok |-> TRUE, val |-> <<Utf8CodePoint(bytes, i)>> \o rest.val]
             ELSE rest

\* str::from_utf8(&bytes): Ok(val) or Err.
from_utf8(bytes) == Utf8DecodeFrom(bytes, 1)

\* The UTF-8 bytes of one char.
EncodeChar(c) ==
    IF c < 128 THEN <<c>>
    ELSE IF c < 2048 THEN <<192 + (c \div 64), 128 + (c % 64)>>
    ELSE IF c < 65536
         THEN <<224 + (c \div 4096), 128 + ((c \div 64) % 64), 128 + (c % 64)>>
    ELSE <<240 + (c \div 262144), 128 + ((c \div 4096) % 64),
           128 + ((c \div 64) % 64), 128 + (c % 64)>>

RECURSIVE as_bytes(_)
\* The bytes of a str.
as_bytes(s) ==
    IF s = <<>> THEN <<>> ELSE EncodeChar(Head(s)) \o as_bytes(Tail(s))

(***************************************************************************)
(* Project: construction, path() and drop                                  *)
(***************************************************************************)
TmpNames == 1..NumTmpNames

Handles == 1..MaxProjects

NoCall == [op |-> "none", res |-> "Ok"]

\* A panic unwinds the test: nothing is called after it.
Panicked ==
    last.res \in {"PanicUtf8", "PanicAssertEq", "PanicOpen", "PanicRegex",
                  "PanicInit", "PanicChdir", "PanicRead"}

\* tempfile::tempdir(): draws a name and creates the directory with
\* create_dir, drawing again when the name exists; Err when the directory
\* cannot be created.
tempdir(existing) ==
    {[ok |-> TRUE, name |-> n] : n \in TmpNames \ existing}
        \cup {[ok |-> FALSE, name |-> 0]}

\* Project::path()
path(h) == projects[h]

Alive == DOMAIN projects

\* A bug to tell apart: the directory is a name drawn without looking at the
\* temporary root (create_dir_all on a name of the caller's choosing).
ProjectNewAnyName(h) ==
    /\ ~Panicked
    /\ h \in Handles \ Alive
    /\ \E n \in TmpNames :
          /\ dirs' = dirs \cup {n}
          /\ projects' = projects @@ (h :> n)
          /\ last' = [op |-> "new", res |-> "Ok", h |-> h]
    /\ UNCHANGED <<fs, output, proc>>

\* Project::new() / project(), its result bound to the free handle h.
ProjectNew(h) ==
    /\ ~Panicked
    /\ h \in Handles \ Alive
    /\ \E r \in tempdir(dirs) :
          IF r.ok
          THEN /\ dirs' = dirs \cup {r.name}
               /\ projects' = projects @@ (h :> r.name)
               /\ last' = [op |-> "new", res |-> "Ok", h |-> h]
          ELSE /\ last' = [op |-> "new", res |-> "Err", h |-> h]
               /\ UNCHANGED <<dirs, projects>>
    /\ UNCHANGED <<fs, output, proc>>

\* The Project bound to h goes out of scope: TempDir's drop removes the
\* directory.
ProjectDrop(h) ==
    /\ ~Panicked
    /\ h \in Alive
    /\ dirs' = dirs \ {projects[h]}
    /\ projects' = [g \in Alive \ {h} |-> projects[g]]
    /\ last' = [op |-> "drop", res |-> "Ok", h |-> h]
    /\ UNCHANGED <<fs, output, proc>>

(***************************************************************************)
(* The tree under a Project's directory                                    *)
(***************************************************************************)
\* The paths of the tree: "" (the Project's directory), "f", "d", "d/f".
RelPaths == {<<>>, <<"f">>, <<"d">>, <<"d", "f">>}

\* The relative paths given to the calls.
ArgPaths == RelPaths \ {<<>>}

Absent == [kind |-> "absent", bytes |-> <<>>]

DirNode == [kind |-> "dir", bytes |-> <<>>]

FileNode(b) == [kind |-> "file", bytes |-> b]

\* The directory tempdir() has just created: empty.
EmptyTree == [p \in RelPaths |-> IF p = <<>> THEN DirNode ELSE Absent]

EmptyOutput == [stdout |-> <<>>, stderr |-> <<>>, status |-> 0]

\* Every proper ancestor of p is a directory.
AncestorsAreDirs(tree, p) ==
    \A k \in 0..(Len(p) - 1) : tree[Take(p, k)].kind = "dir"

\* What the path names: "absent", "dir" or "file" when its parent is a
\* directory, "notdir" when an ancestor is a file, "noparent" when its parent
\* does not exist.
PreKind(tree, p) ==
    IF AncestorsAreDirs(tree, p) THEN tree[p].kind
    ELSE IF \E k \in 0..(Len(p) - 1) : tree[Take(p, k)].kind = "file"
         THEN "notdir"
    ELSE "noparent"

\* A bug to tell apart: the parent directories are created first
\* (create_dir_all(parent) before the write).
fs_write_mkdirs(tree, p, bytes) ==
    IF tree[p].kind = "dir"
           \/ \E k \in 0..(Len(p) - 1) : tree[Take(p, k)].kind = "file"
    THEN [ok |-> FALSE, tree |-> tree]
    ELSE [ok |-> TRUE,
          tree |-> [q \in RelPaths |->
                      IF q = p THEN FileNode(bytes)
                      ELSE IF Len(q) < Len(p) /\ q = Take(p, Len(q)) THEN DirNode
                      ELSE tree[q]]]

\* A bug to tell apart: the file is opened for appending instead of being
\* truncated.
fs_write_append(tree, p, bytes) ==
    IF PreKind(tree, p) \in {"absent", "file"}
    THEN [ok |-> TRUE,
          tree |-> [tree EXCEPT ![p] = FileNode(tree[p].bytes \o bytes)]]
    ELSE [ok |-> FALSE, tree |-> tree]

\* std::fs::write(path, bytes): File::create (create, truncate) and
\* write_all. No directory is created.
fs_write(tree, p, bytes) ==
    IF PreKind(tree, p) \in {"absent", "file"}
    THEN [ok |-> TRUE, tree |-> [tree EXCEPT ![p] = FileNode(bytes)]]
    ELSE [ok |-> FALSE, tree |-> tree]

\* Project::new_file(path, contents)
new_file(tree, p, contents) == fs_write(tree, p, as_bytes(contents))

\* A bug to tell apart: the bytes are decoded lossily (from_utf8_lossy), so
\* an ill-formed file goes on to the comparison.
check_file_lossy(tree, p, contents) ==
    IF PreKind(tree, p) # "file" THEN "Err"
    ELSE LET d == from_utf8(tree[p].bytes)
         IN  IF d.ok /\ d.val = contents THEN "Ok" ELSE "PanicAssertEq"

\* Project::check_file(path, contents): "Err" from File::open or
\* read_to_end, "PanicUtf8" from the decoding, "PanicAssertEq" from
\* assert_eq!, else "Ok".
check_file(tree, p, contents) ==
    IF PreKind(tree, p) # "file" THEN "Err"
    ELSE LET d == from_utf8(tree[p].bytes)
         IN  IF ~d.ok THEN "PanicUtf8"
             ELSE IF d.val # contents THEN "PanicAssertEq"
             ELSE "Ok"

(***************************************************************************)
(* Project::is_bin                                                         *)
(***************************************************************************)
BufLen == 8

StartsWith(buf, pre) == Len(buf) >= Len(pre) /\ Take(buf, Len(pre)) = pre

\* The arms of is_bin's match that end in `..`.
PrefixSignatures ==
    { <<77, 90>>,               \* 4D 5A        DOS MZ
      <<90, 77>>,               \* 5A 4D        DOS ZM
      <<127, 69, 76, 70>>,      \* 7F 45 4C 46  ELF
      <<74, 111, 121, 33>>,     \* 4A 6F 79 21  Preferred Executable Format
      <<0, 0, 3, 243>> }        \* 00 00 03 F3  Amiga Hunk

\* The arm that names all eight bytes: 64 65 78 0A 30 33 35 00.
DalvikSignature == <<100, 101, 120, 10, 48, 51, 53, 0>>

\* The match of is_bin on the buffer.
MatchesSignature(buf) ==
    \/ \E sig \in PrefixSignatures : StartsWith(buf, sig)
    \/ buf = DalvikSignature

\* Read::read_exact on an opened node into a buffer of n bytes: Err on a
\* directory and on a file of fewer than n bytes.
read_exact(node, n) ==
    IF node.kind = "file" /\ Len(node.bytes) >= n
    THEN [ok |-> TRUE, buf |-> Take(node.bytes, n)]
    ELSE [ok |-> FALSE, buf |-> <<>>]

\* A bug to tell apart: the result of read_exact is unwrapped, so a short
\* file panics like a path that cannot be opened.
is_bin_unwrap(tree, p) ==
    IF PreKind(tree, p) \notin {"file", "dir"} THEN "PanicOpen"
    ELSE LET r == read_exact(tree[p], BufLen)
         IN  IF ~r.ok THEN "PanicOpen"
             ELSE IF MatchesSignature(r.buf) THEN "true" ELSE "false"

\* A bug to tell apart: after a failed read_exact only the rest of the
\* buffer, behind the bytes that were read, is filled with 0x01.
is_bin_fill_rest(tree, p) ==
    IF PreKind(tree, p) \notin {"file", "dir"} THEN "PanicOpen"
    ELSE LET r == read_exact(tree[p], BufLen)
             got == IF tree[p].kind = "file" THEN tree[p].bytes ELSE <<>>
             buf == IF r.ok THEN r.buf
                    ELSE [i \in 1..BufLen |-> IF i <= Len(got) THEN got[i] ELSE 1]
         IN  IF MatchesSignature(buf) THEN "true" ELSE "false"

\* Project::is_bin(path): "PanicOpen" from File::open(..).expect(..), else
\* the bool. When read_exact fails the whole buffer is filled with 0x01.
is_bin(tree, p) ==
    IF PreKind(tree, p) \notin {"file", "dir"} THEN "PanicOpen"
    ELSE LET r == read_exact(tree[p], BufLen)
             buf == IF r.ok THEN r.buf ELSE [i \in 1..BufLen |-> 1]
         IN  IF MatchesSignature(buf) THEN "true" ELSE "false"

(***************************************************************************)
(* Calls on one Project's directory                                        *)
(***************************************************************************)
\* 'a' and U+00E9, which takes two bytes.
TextChars == {97, 233}

\* The texts given to new_file and check_file.
Texts == SeqsUpTo(TextChars, MaxTextLen)

\* The texts given to new_file before is_bin; "MZ" is the DOS signature.
BinTexts == {<<>>, <<97>>, <<77, 90>>}

\* Project::new_file(p, c) returns.
NewFile(p, c) ==
    /\ ~Panicked
    /\ LET r == new_file(fs, p, c)
       IN  /\ fs' = r.tree
           /\ last' = [op |-> "new_file", path |-> p, text |-> c,
                       res |-> IF r.ok THEN "Ok" ELSE "Err",
                       pre |-> PreKind(fs, p),
                       follows |-> FALSE,
                       over |-> PreKind(fs, p) = "file"
                                   /\ fs[p].bytes # as_bytes(c)]
    /\ UNCHANGED <<dirs, projects, output, proc>>

\* Project::check_file(p, c) returns or panics. follows: the call before
\* was new_file(p, c); over: that new_file replaced other contents.
CheckFile(p, c) ==
    /\ ~Panicked
    /\ LET f == last.op = "new_file" /\ last.path = p /\ last.text = c
       IN  last' = [op |-> "check_file", path |-> p, text |-> c,
                    res |-> check_file(fs, p, c),
                    pre |-> IF f THEN last.pre ELSE PreKind(fs, p),
                    follows |-> f,
                    over |-> f /\ last.over]
    /\ UNCHANGED <<dirs, projects, fs, output, proc>>

\* Project::is_bin(p) returns or panics.
IsBin(p) ==
    /\ ~Panicked
    /\ last' = [op |-> "is_bin", path |-> p, res |-> is_bin(fs, p),
                pre |-> PreKind(fs, p)]
    /\ UNCHANGED <<dirs, projects, fs, output, proc>>

\* The subject program, run by command() with the Project's directory as
\* its working directory, writes a file there.
SubjectWrites(p, bytes) ==
    /\ ~Panicked
    /\ PreKind(fs, p) \in {"absent", "file"}
    /\ fs' = [fs EXCEPT ![p] = FileNode(bytes)]
    /\ last' = [op |-> "subject", res |-> "Ok"]
    /\ UNCHANGED <<dirs, projects, output, proc>>

\* The subject program creates a directory there.
SubjectMkdir(p) ==
    /\ ~Panicked
    /\ PreKind(fs, p) = "absent"
    /\ fs' = [fs EXCEPT ![p] = DirNode]
    /\ last' = [op |-> "subject", res |-> "Ok"]
    /\ UNCHANGED <<dirs, projects, output, proc>>

\* Files of the subject program for check_file: ill-formed UTF-8 (FF, and a
\* leading C3 with no continuation) and text.
SubjectTexts == {<<255>>, <<195>>, <<97, 10>>}

\* Files of the subject program for is_bin: signatures, cut signatures and
\* other bytes, each followed by zero bytes up to MaxFileLen bytes.
SubjectHeads ==
    PrefixSignatures \cup
    { DalvikSignature, Take(DalvikSignature, 7),
      Take(DalvikSignature, 7) \o <<1>>, <<127, 69, 76>>, <<77>>,
      <<>>, <<255>> }

SubjectFiles ==
    UNION { {h \o [i \in 1..k |-> 0] : k \in 0..(MaxFileLen - Len(h))}
            : h \in SubjectHeads }

(***************************************************************************)
(* WithStdout for Output                                                   *)
(***************************************************************************)
IsSpace(c) == c \in {9, 10, 13, 32}

RECURSIVE trim(_)
\* str::trim on the chars the model uses.
trim(s) ==
    IF s = <<>> THEN s
    ELSE IF IsSpace(Head(s)) THEN trim(Tail(s))
    ELSE IF IsSpace(s[Len(s)]) THEN trim(Take(s, Len(s) - 1))
    ELSE s

\* A bug to tell apart: both sides are trimmed before the comparison.
with_stdout_trim(out, lit) ==
    LET d == from_utf8(out.stdout)
    IN  IF ~d.ok THEN "PanicUtf8"
        ELSE IF trim(d.val) # trim(lit) THEN "PanicAssertEq"
        ELSE "Ok"

\* Output::with_stdout(lit)
with_stdout(out, lit) ==
    LET d == from_utf8(out.stdout)
    IN  IF ~d.ok THEN "PanicUtf8"
        ELSE IF d.val # lit THEN "PanicAssertEq"
        ELSE "Ok"

\* Output::with_stderr(lit)
with_stderr(out, lit) ==
    LET d == from_utf8(out.stderr)
    IN  IF ~d.ok THEN "PanicUtf8"
        ELSE IF d.val # lit THEN "PanicAssertEq"
        ELSE "Ok"

\* Regex::new(pattern) for patterns of literal chars, '.', '^', '$' and
\* '[': a '[' opens a class, which needs an item and a closing ']'.
RegexNew(pattern) ==
    [ok |-> \A i \in 1..Len(pattern) :
                pattern[i] = 91 => \E j \in (i + 2)..Len(pattern) : pattern[j] = 93]

RECURSIVE MatchHere(_, _, _, _)
\* pattern[i..] matches text from the position after pos chars. '^' and '$'
\* match at the two ends of the text only, '.' any char but '\n'.
MatchHere(pattern, i, text, pos) ==
    IF i > Len(pattern) THEN TRUE
    ELSE CASE pattern[i] = 94 ->
                pos = 0 /\ MatchHere(pattern, i + 1, text, pos)
           [] pattern[i] = 36 ->
                pos = Len(text) /\ MatchHere(pattern, i + 1, text, pos)
           [] pattern[i] = 46 ->
                /\ pos < Len(text)
                /\ text[pos + 1] # 10
                /\ MatchHere(pattern, i + 1, text, pos + 1)
           [] OTHER ->
                /\ pos < Len(text)
                /\ text[pos + 1] = pattern[i]
                /\ MatchHere(pattern, i + 1, text, pos + 1)

\* Regex::is_match(text): the pattern matches somewhere in the text.
is_match(pattern, text) ==
    \E start \in 0..Len(text) : MatchHere(pattern, 1, text, start)

\* A bug to tell apart: the stream is decoded before the pattern is
\* compiled.
with_stdout_regex_decode_first(out, regex) ==
    LET d == from_utf8(out.stdout)
    IN  IF ~d.ok THEN "PanicUtf8"
        ELSE IF ~RegexNew(regex).ok THEN "PanicRegex"
        ELSE IF ~is_match(regex, d.val) /\ d.val # regex THEN "PanicAssertEq"
        ELSE "Ok"

\* Output::with_stdout_regex(regex)
with_stdout_regex(out, regex) ==
    IF ~RegexNew(regex).ok THEN "PanicRegex"
    ELSE LET d == from_utf8(out.stdout)
         IN  IF ~d.ok THEN "PanicUtf8"
             ELSE IF ~is_match(regex, d.val) /\ d.val # regex THEN "PanicAssertEq"
             ELSE "Ok"

\* Output::with_stderr_regex(regex)
with_stderr_regex(out, regex) ==
    IF ~RegexNew(regex).ok THEN "PanicRegex"
    ELSE LET d == from_utf8(out.stderr)
         IN  IF ~d.ok THEN "PanicUtf8"
             ELSE IF ~is_match(regex, d.val) /\ d.val # regex THEN "PanicAssertEq"
             ELSE "Ok"

\* Output::empty_stderr(): reads self.stdout.
empty_stderr(out) == Len(out.stdout) = 0

\* Output::empty_stdout()
empty_stdout(out) == Len(out.stdout) = 0

Bool(b) == IF b THEN "true" ELSE "false"

\* "warning:", the word the documentation of stdout_warns / stderr_warns
\* names.
WarningWord == <<119, 97, 114, 110, 105, 110, 103, 58>>

\* "warnings:", the word the two methods look for.
WarningsWord == <<119, 97, 114, 110, 105, 110, 103, 115, 58>>

\* str::contains(needle)
contains(text, needle) ==
    \E i \in 0..(Len(text) - Len(needle)) :
        SubSeq(text, i + 1, i + Len(needle)) = needle

\* Output::stdout_warns(): "PanicUtf8" or the bool.
stdout_warns(out) ==
    LET d == from_utf8(out.stdout)
    IN  IF ~d.ok THEN "PanicUtf8" ELSE Bool(contains(d.val, WarningsWord))

\* Output::stderr_warns(): "PanicUtf8" or the bool.
stderr_warns(out) ==
    LET d == from_utf8(out.stderr)
    IN  IF ~d.ok THEN "PanicUtf8" ELSE Bool(contains(d.val, WarningsWord))

\* A call of one of the checks returns or panics.
WithStdout(lit) ==
    /\ ~Panicked
    /\ last' = [op |-> "with_stdout", arg |-> lit, res |-> with_stdout(output, lit)]
    /\ UNCHANGED <<dirs, projects, fs, output, proc>>

WithStderr(lit) ==
    /\ ~Panicked
    /\ last' = [op |-> "with_stderr", arg |-> lit, res |-> with_stderr(output, lit)]
    /\ UNCHANGED <<dirs, projects, fs, output, proc>>

WithStdoutRegex(regex) ==
    /\ ~Panicked
    /\ last' = [op |-> "with_stdout_regex", arg |-> regex,
                res |-> with_stdout_regex(output, regex)]
    /\ UNCHANGED <<dirs, projects, fs, output, proc>>

WithStderrRegex(regex) ==
    /\ ~Panicked
    /\ last' = [op |-> "with_stderr_regex", arg |-> regex,
                res |-> with_stderr_regex(output, regex)]
    /\ UNCHANGED <<dirs, projects, fs, output, proc>>

EmptyStdout ==
    /\ ~Panicked
    /\ last' = [op |-> "empty_stdout", arg |-> <<>>,
                res |-> Bool(empty_stdout(output))]
    /\ UNCHANGED <<dirs, projects, fs, output, proc>>

EmptyStderr ==
    /\ ~Panicked
    /\ last' = [op |-> "empty_stderr", arg |-> <<>>,
                res |-> Bool(empty_stderr(output))]
    /\ UNCHANGED <<dirs, projects, fs, output, proc>>

StdoutWarns ==
    /\ ~Panicked
    /\ last' = [op |-> "stdout_warns", arg |-> <<>>, res |-> stdout_warns(output)]
    /\ UNCHANGED <<dirs, projects, fs, output, proc>>

StderrWarns ==
    /\ ~Panicked
    /\ last' = [op |-> "stderr_warns", arg |-> <<>>, res |-> stderr_warns(output)]
    /\ UNCHANGED <<dirs, projects, fs, output, proc>>

\* Bytes of the captured streams: 'a', '\n', '^', and C3 A9 (U+00E9), each
\* half of which is ill-formed alone.
StreamBytes == {97, 10, 94, 195, 169}

Streams == SeqsUpTo(StreamBytes, MaxOutputLen)

\* Streams of a subject program that warns: "warning:", "warnings:",
\* "awarning:\n", "awarnings:\n", "warning".
WarnStreams ==
    { as_bytes(WarningWord), as_bytes(WarningsWord),
      <<97>> \o as_bytes(WarningWord) \o <<10>>,
      <<97>> \o as_bytes(WarningsWord) \o <<10>>,
      as_bytes(Take(WarningWord, 7)) }

\* Chars of the literals: 'a', '\n'.
LitChars == {97, 10}

\* The literals, with U+00E9 and "^a".
Literals == SeqsUpTo(LitChars, MaxLitLen) \cup {<<233>>, <<94, 97>>}

\* The patterns: "", a, ., ^, $, ^a, a$, ^a$, a., ^$, U+00E9, a\n, and the
\* malformed [, [a, a[.
Patterns ==
    { <<>>, <<97>>, <<46>>, <<94>>, <<36>>, <<94, 97>>, <<97, 36>>,
      <<94, 97, 36>>, <<97, 46>>, <<94, 36>>, <<233>>, <<97, 10>>,
      <<91>>, <<91, 97>>, <<97, 91>> }

(***************************************************************************)
(* The process: environment variables, working directory, threads          *)
(***************************************************************************)
\* The working directory the test process starts in (the crate's root).
OrigDir == 0

SandboxPrefix == <<"S", "A", "N", "D", "B", "O", "X", "_">>

\* "SANDBOX_TARGET_DIR"
TargetDirVar ==
    SandboxPrefix \o <<"T", "A", "R", "G", "E", "T", "_", "D", "I", "R">>

\* "SANDBOX_PKG_NAME"
PkgNameVar == SandboxPrefix \o <<"P", "K", "G", "_", "N", "A", "M", "E">>

\* "CARGO_MANIFEST_DIR", which cargo sets for the test process.
ManifestDirVar ==
    <<"C", "A", "R", "G", "O", "_", "M", "A", "N", "I", "F", "E", "S", "T",
      "_", "D", "I", "R">>

\* "HOME", a variable of the user.
HomeVar == <<"H", "O", "M", "E">>

\* The environment the test process inherits.
InheritedEnv == (ManifestDirVar :> "/crate") @@ (HomeVar :> "/home/user")

IdleThread ==
    [pc |-> "idle", prefix |-> <<>>, cwd0 |-> OrigDir, env0 |-> <<>>]

Threads == DOMAIN th

\* The Project a thread's test holds.
ProjectOf(t) == t

\* Thread t may take a step: it has not panicked, and when the caller
\* serializes the calls no other thread is inside one.
CanStep(t) ==
    /\ th[t].pc # "panicked"
    /\ cfg.serialized
          => \A u \in Threads \ {t} : th[u].pc \in {"idle", "panicked"}

InitProc ==
    /\ env = InheritedEnv
    /\ cwd = OrigDir
    /\ cfg = [profile |-> "dev", serialized |-> TRUE]
    /\ th = (1 :> IdleThread)
    /\ hist = "none"

\* env::set_var(name, value)
set_var(e, name, value) ==
    [n \in DOMAIN e \cup {name} |-> IF n = name THEN value ELSE e[n]]

\* init(): panics when cargo metadata cannot be read (ok = FALSE), else sets
\* the two variables.
InitSandbox(t, ok) ==
    /\ CanStep(t)
    /\ th[t].pc = "idle"
    /\ IF ok
       THEN /\ env' = set_var(set_var(env, TargetDirVar, "/crate/target"),
                              PkgNameVar, "subject")
            /\ hist' = "init"
            /\ last' = [op |-> "init", res |-> "Ok", t |-> t]
            /\ UNCHANGED th
       ELSE /\ th' = [th EXCEPT ![t].pc = "panicked"]
            /\ last' = [op |-> "init", res |-> "PanicInit", t |-> t]
            /\ UNCHANGED <<env, hist>>
    /\ UNCHANGED <<dirs, projects, fs, output, cwd, cfg>>

\* The variables command() reads with env::var(..)? are set.
Resolved(e, profile) ==
    IF profile = "dev"
    THEN TargetDirVar \in DOMAIN e /\ PkgNameVar \in DOMAIN e
    ELSE ManifestDirVar \in DOMAIN e

\* A bug to tell apart: a non-zero exit status is returned as an error.
command_checks_status(e, profile, exeOk, run) ==
    IF ~Resolved(e, profile)
    THEN [res |-> "Err", attempts |-> 0, started |-> 0]
    ELSE [res |-> IF exeOk /\ run.status = 0 THEN "Ok" ELSE "Err",
          attempts |-> 1, started |-> IF exeOk THEN 1 ELSE 0]

\* A bug to tell apart: an unset SANDBOX_TARGET_DIR falls back to "target".
command_default_target(e, profile, exeOk, run) ==
    IF \/ profile = "dev" /\ PkgNameVar \notin DOMAIN e
       \/ profile # "dev" /\ ManifestDirVar \notin DOMAIN e
    THEN [res |-> "Err", attempts |-> 0, started |-> 0]
    ELSE [res |-> IF exeOk THEN "Ok" ELSE "Err",
          attempts |-> 1, started |-> IF exeOk THEN 1 ELSE 0]

\* Project::command(args): Err from env::var(..)? before anything is
\* launched; else Command::output() is called once, Err when the executable
\* cannot be started (exeOk = FALSE), else Ok with the captured run.
command(e, profile, exeOk, run) ==
    IF ~Resolved(e, profile)
    THEN [res |-> "Err", attempts |-> 0, started |-> 0]
    ELSE [res |-> IF exeOk THEN "Ok" ELSE "Err",
          attempts |-> 1, started |-> IF exeOk THEN 1 ELSE 0]

\* What a run of the subject program leaves: its streams, its exit status,
\* and whether it wrote the file "f" in the Project's directory.
Runs ==
    { [stdout |-> <<>>, stderr |-> <<>>, status |-> 0, wrote |-> FALSE],
      [stdout |-> <<97>>, stderr |-> <<>>, status |-> 0, wrote |-> TRUE],
      [stdout |-> <<>>, stderr |-> <<195>>, status |-> 1, wrote |-> FALSE],
      [stdout |-> <<97>>, stderr |-> <<97>>, status |-> 1, wrote |-> TRUE] }

\* Project::command(args) of thread t's Project returns.
Command(t, exeOk, run) ==
    /\ CanStep(t)
    /\ th[t].pc = "idle"
    /\ ProjectOf(t) \in Alive
    /\ LET r == command(env, cfg.profile, exeOk, run)
       IN  /\ output' = IF r.res = "Ok"
                         THEN [stdout |-> run.stdout, stderr |-> run.stderr,
                               status |-> run.status]
                         ELSE output
           /\ fs' = IF r.started = 1 /\ run.wrote
                     THEN [fs EXCEPT ![<<"f">>] = FileNode(<<97>>)]
                     ELSE fs
           /\ last' = [op |-> "command", res |-> r.res, t |-> t,
                       attempts |-> r.attempts, started |-> r.started,
                       exeOk |-> exeOk, run |-> run]
    /\ UNCHANGED <<dirs, projects, proc>>

\* clean_env, first statement: env::current_dir() is kept in cwd.
CleanEnvBegin(t, prefix) ==
    /\ CanStep(t)
    /\ th[t].pc = "idle"
    /\ ProjectOf(t) \in Alive
    /\ th' = [th EXCEPT ![t] = [pc |-> "saved", prefix |-> prefix,
                                  cwd0 |-> cwd, env0 |-> env]]
    /\ UNCHANGED <<dirs, projects, fs, output, last, env, cwd, cfg, hist>>

\* clean_env: env::set_current_dir(self.path()), a panic when the
\* directory is gone.
CleanEnvEnter(t) ==
    /\ CanStep(t)
    /\ th[t].pc = "saved"
    /\ IF path(ProjectOf(t)) \in dirs
       THEN /\ cwd' = path(ProjectOf(t))
            /\ th' = [th EXCEPT ![t].pc = "inside"]
            /\ UNCHANGED last
       ELSE /\ th' = [th EXCEPT ![t].pc = "panicked"]
            /\ last' = [op |-> "clean_env", res |-> "PanicChdir", t |-> t]
            /\ UNCHANGED cwd
    /\ UNCHANGED <<dirs, projects, fs, output, env, cfg, hist>>

\* A bug to tell apart: only the variable named prefix is removed.
remove_named(e, prefix) ==
    [n \in {k \in DOMAIN e : k # prefix} |-> e[n]]

\* The variables the loop of clean_env leaves.
remove_prefixed(e, prefix) ==
    [n \in {k \in DOMAIN e : ~StartsWith(k, prefix)} |-> e[n]]

\* clean_env: the loop over env::vars() removes the variables whose name
\* starts with the prefix.
CleanEnvRemove(t) ==
    /\ CanStep(t)
    /\ th[t].pc = "inside"
    /\ env' = remove_prefixed(env, th[t].prefix)
    /\ hist' = IF \/ StartsWith(TargetDirVar, th[t].prefix)
                  \/ StartsWith(PkgNameVar, th[t].prefix)
               THEN "cleaned"
               ELSE hist
    /\ th' = [th EXCEPT ![t].pc = "removed"]
    /\ UNCHANGED <<dirs, projects, fs, output, last, cwd, cfg>>

\* A bug to tell apart: clean_env returns without going back to the
\* directory it started in.
CleanEnvStay(t) ==
    /\ CanStep(t)
    /\ th[t].pc = "removed"
    /\ th' = [th EXCEPT ![t] = IdleThread]
    /\ last' = [op |-> "clean_env", res |-> "Ok", t |-> t,
                prefix |-> th[t].prefix, cwd0 |-> th[t].cwd0,
                env0 |-> th[t].env0]
    /\ UNCHANGED <<dirs, projects, fs, output, env, cwd, cfg, hist>>

\* clean_env, last statement: env::set_current_dir(cwd), and the call
\* returns.
CleanEnvRestore(t) ==
    /\ CanStep(t)
    /\ th[t].pc = "removed"
    /\ cwd' = th[t].cwd0
    /\ th' = [th EXCEPT ![t] = IdleThread]
    /\ last' = [op |-> "clean_env", res |-> "Ok", t |-> t,
                prefix |-> th[t].prefix, cwd0 |-> th[t].cwd0,
                env0 |-> th[t].env0]
    /\ UNCHANGED <<dirs, projects, fs, output, env, cfg, hist>>

\* The text of the reference file "ref.stdout" in the crate's root.
RefText == <<97>>

\* std::fs::read_to_string("ref.stdout") with the working directory dir:
\* the relative name is found in the crate's root only.
read_to_string(dir) ==
    IF dir = OrigDir
    THEN [ok |-> TRUE, text |-> RefText]
    ELSE [ok |-> FALSE, text |-> <<>>]

\* Output::with_stdout_file(filename), filename relative, in directory dir.
with_stdout_file(out, dir) ==
    LET expected == read_to_string(dir)
        d == from_utf8(out.stdout)
    IN  IF ~expected.ok THEN "PanicRead"
        ELSE IF ~d.ok THEN "PanicUtf8"
        ELSE IF expected.text # d.val THEN "PanicAssertEq"
        ELSE "Ok"

\* Output::with_stderr_file(filename), filename relative, in directory dir.
with_stderr_file(out, dir) ==
    LET expected == read_to_string(dir)
        d == from_utf8(out.stderr)
    IN  IF ~expected.ok THEN "PanicRead"
        ELSE IF ~d.ok THEN "PanicUtf8"
        ELSE IF expected.text # d.val THEN "PanicAssertEq"
        ELSE "Ok"

\* Thread t calls with_stdout_file("ref.stdout"); cwd is the directory the
\* name was resolved against.
WithStdoutFile(t) ==
    /\ CanStep(t)
    /\ th[t].pc = "idle"
    /\ LET r == with_stdout_file(output, cwd)
       IN  /\ last' = [op |-> "with_stdout_file", res |-> r, t |-> t,
                       cwd |-> cwd]
           /\ th' = IF r = "Ok" THEN th ELSE [th EXCEPT ![t].pc = "panicked"]
    /\ UNCHANGED <<dirs, projects, fs, output, env, cwd, cfg, hist>>

\* Thread t calls with_stderr_file("ref.stdout").
WithStderrFile(t) ==
    /\ CanStep(t)
    /\ th[t].pc = "idle"
    /\ LET r == with_stderr_file(output, cwd)
       IN  /\ last' = [op |-> "with_stderr_file", res |-> r, t |-> t,
                       cwd |-> cwd]
           /\ th' = IF r = "Ok" THEN th ELSE [th EXCEPT ![t].pc = "panicked"]
    /\ UNCHANGED <<dirs, projects, fs, output, env, cwd, cfg, hist>>

\* The prefixes given to clean_env: "", "S", "SANDBOX_", "SANDBOX_T",
\* the two names, "SANDBOX_PKG_NAMES", "H", "X".
Prefixes ==
    { <<>>, <<"S">>, SandboxPrefix, SandboxPrefix \o <<"T">>, TargetDirVar,
      PkgNameVar, PkgNameVar \o <<"S">>, <<"H">>, <<"X">> }

(***************************************************************************)
(* Specifications                                                          *)
(***************************************************************************)
Init ==
    /\ dirs = {}
    /\ projects = <<>>
    /\ fs = EmptyTree
    /\ output = EmptyOutput
    /\ last = NoCall
    /\ InitProc

Next ==
    \/ \E h \in Handles : ProjectNew(h)
    \/ \E h \in Handles : ProjectDrop(h)

Spec == Init /\ [][Next]_vars

\* One Project, just created.
InitFile ==
    /\ dirs = {1}
    /\ projects = (1 :> 1)
    /\ fs = EmptyTree
    /\ output = EmptyOutput
    /\ last = NoCall
    /\ InitProc

NextFile ==
    \/ \E p \in ArgPaths, c \in Texts : NewFile(p, c)
    \/ \E p \in ArgPaths, c \in Texts : CheckFile(p, c)
    \/ \E b \in SubjectTexts : SubjectWrites(<<"f">>, b)
    \/ SubjectMkdir(<<"d">>)

SpecFile == InitFile /\ [][NextFile]_vars

NextBin ==
    \/ \E p \in ArgPaths : IsBin(p)
    \/ \E c \in BinTexts : NewFile(<<"f">>, c)
    \/ \E b \in SubjectFiles : SubjectWrites(<<"f">>, b)
    \/ SubjectMkdir(<<"d">>)

SpecBin == InitFile /\ [][NextBin]_vars

\* One captured Output, as command() returns it.
InitOutput ==
    /\ dirs = {1}
    /\ projects = (1 :> 1)
    /\ fs = EmptyTree
    /\ output \in {o \in [stdout : Streams, stderr : Streams, status : {0}] :
                      Len(o.stdout) + Len(o.stderr) <= MaxOutputLen}
                  \cup [stdout : WarnStreams, stderr : {<<>>, <<195>>}, status : {0}]
                  \cup [stdout : {<<>>, <<195>>}, stderr : WarnStreams, status : {0}]
    /\ last = NoCall
    /\ InitProc

NextOutput ==
    \/ \E lit \in Literals : WithStdout(lit)
    \/ \E lit \in Literals : WithStderr(lit)
    \/ \E regex \in Patterns : WithStdoutRegex(regex)
    \/ \E regex \in Patterns : WithStderrRegex(regex)
    \/ EmptyStdout
    \/ EmptyStderr
    \/ StdoutWarns
    \/ StderrWarns

SpecOutput == InitOutput /\ [][NextOutput]_vars

\* One thread, one Project: init(), command() and clean_env() in any order,
\* under either profile. SANDBOX_TARGET_DIR and SANDBOX_PKG_NAME are
\* cli-sandbox's own: nothing sets them before init().
InitEnv ==
    /\ dirs = {1}
    /\ projects = (1 :> 1)
    /\ fs = EmptyTree
    /\ output = EmptyOutput
    /\ last = NoCall
    /\ env \in {[n \in S |-> InheritedEnv[n]] : S \in SUBSET DOMAIN InheritedEnv}
    /\ cwd = OrigDir
    /\ cfg \in [profile : {"dev", "release"}, serialized : {TRUE}]
    /\ th = (1 :> IdleThread)
    /\ hist = "none"

NextEnv ==
    \/ \E ok \in BOOLEAN : InitSandbox(1, ok)
    \/ \E exeOk \in BOOLEAN, run \in Runs : Command(1, exeOk, run)
    \/ \E prefix \in Prefixes : CleanEnvBegin(1, prefix)
    \/ CleanEnvEnter(1)
    \/ CleanEnvRemove(1)
    \/ CleanEnvRestore(1)

SpecEnv == InitEnv /\ [][NextEnv]_vars

\* Two threads, each with its own Project, calling clean_env and
\* with_stdout_file / with_stderr_file; the caller serializes the calls or
\* does not.
InitConc ==
    /\ dirs = {1, 2}
    /\ projects = (1 :> 1 @@ 2 :> 2)
    /\ fs = EmptyTree
    /\ output \in {EmptyOutput, [EmptyOutput EXCEPT !.stdout = as_bytes(RefText)]}
    /\ last = NoCall
    /\ env = set_var(InheritedEnv, TargetDirVar, "/crate/target")
    /\ cwd = OrigDir
    /\ cfg \in [profile : {"dev"}, serialized : BOOLEAN]
    /\ th = (1 :> IdleThread @@ 2 :> IdleThread)
    /\ hist = "init"

NextConc ==
    \/ \E t \in Threads, prefix \in {SandboxPrefix, <<"X">>} : CleanEnvBegin(t, prefix)
    \/ \E t \in Threads : CleanEnvEnter(t)
    \/ \E t \in Threads : CleanEnvRemove(t)
    \/ \E t \in Threads : CleanEnvRestore(t)
    \/ \E t \in Threads : WithStdoutFile(t)
    \/ \E t \in Threads : WithStderrFile(t)

SpecConc == InitConc /\ [][NextConc]_vars

(***************************************************************************)
(* Properties                                                              *)
(***************************************************************************)
\* C1: any two Projects alive at the same time report different paths.
C1_DistinctPaths ==
    \A h1, h2 \in Alive : h1 # h2 => path(h1) # path(h2)

\* Project::new() has just returned a second live Project.
C1_Witness ==
    /\ last.op = "new"
    /\ last.res = "Ok"
    /\ Cardinality(Alive) >= 2

\* C2 as stated: check_file(P, C) right after new_file(P, C) returns Ok, for
\* every relative path P and text C.
C2_RoundTripAnyPath ==
    (last.op = "check_file" /\ last.follows) => last.res = "Ok"

\* C2 amended: when P's parent directory exists and P names no directory,
\* new_file(P, C) returns Ok and check_file(P, C) right after it returns Ok,
\* also when P held other contents before.
C2_RoundTrip ==
    /\ (last.op = "new_file" /\ last.pre \in {"absent", "file"})
          => last.res = "Ok"
    /\ (last.op = "check_file" /\ last.follows /\ last.pre \in {"absent", "file"})
          => last.res = "Ok"

\* check_file(P, C) returned Ok right after new_file(P, C) replaced other
\* contents of P.
C2_Witness ==
    /\ last.op = "check_file"
    /\ last.follows
    /\ last.over
    /\ last.res = "Ok"

\* C3: on a stream that is valid UTF-8, with_stdout(L) / with_stderr(L)
\* returns without panicking exactly when the stream's bytes are the bytes of
\* L, nothing trimmed on either side.
C3_LiteralExact ==
    /\ (last.op = "with_stdout" /\ from_utf8(output.stdout).ok)
          => (last.res = "Ok" <=> output.stdout = as_bytes(last.arg))
    /\ (last.op = "with_stderr" /\ from_utf8(output.stderr).ok)
          => (last.res = "Ok" <=> output.stderr = as_bytes(last.arg))

\* with_stdout(L) panicked on a stdout that is L and a trailing newline.
C3_Witness ==
    /\ last.op = "with_stdout"
    /\ last.arg # <<>>
    /\ output.stdout = as_bytes(last.arg) \o <<10>>
    /\ last.res = "PanicAssertEq"

\* C4: on a stdout that is valid UTF-8 and a well-formed pattern R,
\* with_stdout_regex(R) returns without panicking exactly when R matches
\* somewhere in the decoded stdout.
C4_RegexIffMatch ==
    (/\ last.op = "with_stdout_regex"
     /\ RegexNew(last.arg).ok
     /\ from_utf8(output.stdout).ok)
       => (last.res = "Ok" <=> is_match(last.arg, from_utf8(output.stdout).val))

\* C5: empty_stdout() is true exactly when stdout has no bytes, and
\* empty_stderr() is true exactly when stderr has no bytes.
C5_EmptyOwnStream ==
    /\ last.op = "empty_stdout"
          => (last.res = "true" <=> Len(output.stdout) = 0)
    /\ last.op = "empty_stderr"
          => (last.res = "true" <=> Len(output.stderr) = 0)

\* C6: is_bin is true for every file that begins with 4D 5A or with
\* 7F 45 4C 46, whatever its length.
C6_SignaturePrefixIsBin ==
    (/\ last.op = "is_bin"
     /\ last.pre = "file"
     /\ \/ StartsWith(fs[last.path].bytes, <<77, 90>>)
        \/ StartsWith(fs[last.path].bytes, <<127, 69, 76, 70>>))
       => last.res = "true"

\* C7 as stated: is_bin never panics, and returns false for a path that
\* names no file or cannot be read.
C7_NeverFails ==
    last.op = "is_bin"
       => /\ last.res \in {"true", "false"}
          /\ last.pre # "file" => last.res = "false"

\* C7 amended: is_bin panics exactly when the path cannot be opened (it names
\* nothing in the Project's directory); for a path that opens it returns a
\* bool, and false when the read fails (a directory).
C7_FailsOnlyOnOpen ==
    last.op = "is_bin"
       => /\ last.res = "PanicOpen" <=> last.pre \in {"absent", "noparent", "notdir"}
          /\ last.pre = "dir" => last.res = "false"

\* is_bin panicked on a path that names nothing.
C7_Witness ==
    /\ last.op = "is_bin"
    /\ last.pre = "absent"
    /\ last.res = "PanicOpen"

\* C8 as stated: new_file(P, C) with P's parent directory missing returns
\* Ok and P is then a file with contents C.
C8_CreatesParents ==
    (last.op = "new_file" /\ last.pre = "noparent")
       => /\ last.res = "Ok"
          /\ fs[last.path] = FileNode(as_bytes(last.text))

\* C8 amended: new_file(P, C) creates no directory: with P's parent
\* directory missing it returns Err and P and its parent stay absent; with
\* the parent present and P no directory it returns Ok and P is then a file
\* with contents C.
C8_NoParentIsError ==
    /\ (last.op = "new_file" /\ last.pre = "noparent")
          => /\ last.res = "Err"
             /\ fs[last.path].kind = "absent"
             /\ fs[Take(last.path, Len(last.path) - 1)].kind = "absent"
    /\ (last.op = "new_file" /\ last.pre \in {"absent", "file"})
          => /\ last.res = "Ok"
             /\ fs[last.path] = FileNode(as_bytes(last.text))

\* new_file returned Err on a path whose parent directory is missing.
C8_Witness ==
    /\ last.op = "new_file"
    /\ last.pre = "noparent"
    /\ last.res = "Err"

\* C9: with_stdout_regex / with_stderr_regex on a malformed pattern panics
\* with the pattern error whatever the stream holds, ill-formed UTF-8
\* included.
C9_PatternErrorFirst ==
    (/\ last.op \in {"with_stdout_regex", "with_stderr_regex"}
     /\ ~RegexNew(last.arg).ok)
       => last.res = "PanicRegex"

\* with_stdout_regex reported the pattern error on a stdout that is not
\* valid UTF-8.
C9_Witness ==
    /\ last.op = "with_stdout_regex"
    /\ ~RegexNew(last.arg).ok
    /\ ~from_utf8(output.stdout).ok
    /\ last.res = "PanicRegex"

\* C10: check_file tells three failures apart: Err for a path it cannot
\* read, the decoding panic exactly for a file that is not valid UTF-8, the
\* assert_eq! panic exactly for a valid file whose text differs.
C10_ThreeFailures ==
    last.op = "check_file"
       => LET kind == PreKind(fs, last.path)
              d == from_utf8(fs[last.path].bytes)
          IN  /\ last.res = "Err" <=> kind # "file"
              /\ last.res = "PanicUtf8" <=> (kind = "file" /\ ~d.ok)
              /\ last.res = "PanicAssertEq"
                    <=> (kind = "file" /\ d.ok /\ d.val # last.text)
              /\ last.res = "Ok"
                    <=> (kind = "file" /\ d.ok /\ d.val = last.text)

\* check_file panicked in the decoding of a file that is not valid UTF-8.
C10_Witness ==
    /\ last.op = "check_file"
    /\ PreKind(fs, last.path) = "file"
    /\ ~from_utf8(fs[last.path].bytes).ok
    /\ last.res = "PanicUtf8"

\* C14: on streams that are valid UTF-8, stderr_warns() is true exactly when
\* stderr contains "warning:", and stdout_warns() exactly when stdout does.
C14_WarnsIffWarningWord ==
    /\ (last.op = "stderr_warns" /\ from_utf8(output.stderr).ok)
          => (last.res = "true"
                <=> contains(from_utf8(output.stderr).val, WarningWord))
    /\ (last.op = "stdout_warns" /\ from_utf8(output.stdout).ok)
          => (last.res = "true"
                <=> contains(from_utf8(output.stdout).val, WarningWord))

Returned(op) == last.op = op /\ th[last.t].pc = "idle"

\* C11: command(args) returns an error exactly when the executable cannot be
\* resolved (a variable of its path is unset) or cannot be started; when it
\* starts and exits, command returns Ok and the Output is the run's stdout,
\* stderr and exit status, whatever the status; the launch is attempted at
\* most once, and once whenever the path is resolved.
C11_ErrorIffNotLaunched ==
    Returned("command") =>
        /\ (last.res = "Err") <=> (~Resolved(env, cfg.profile) \/ ~last.exeOk)
        /\ last.res \in {"Ok", "Err"}
        /\ last.started = 1 =>
              /\ last.res = "Ok"
              /\ output = [stdout |-> last.run.stdout,
                           stderr |-> last.run.stderr,
                           status |-> last.run.status]
        /\ last.attempts <= 1
        /\ Resolved(env, cfg.profile) => last.attempts = 1

\* command returned Ok with a non-zero exit status in the Output.
C11_Witness ==
    /\ Returned("command")
    /\ last.res = "Ok"
    /\ last.run.status = 1
    /\ output.status = 1
    /\ output.stderr = <<195>>

\* C12: after clean_env(prefix) returns, no variable whose name starts with
\* prefix is set, every variable whose name does not start with prefix has
\* the value it had before the call, no variable was added, and the working
\* directory is the one before the call.
C12_CleanEnvFrame ==
    (Returned("clean_env") /\ last.res = "Ok") =>
        /\ \A n \in DOMAIN env : ~StartsWith(n, last.prefix)
        /\ \A n \in DOMAIN last.env0 :
              ~StartsWith(n, last.prefix)
                  => n \in DOMAIN env /\ env[n] = last.env0[n]
        /\ DOMAIN env \subseteq DOMAIN last.env0
        /\ cwd = last.cwd0

\* clean_env("SANDBOX_") returned: both SANDBOX_ variables were set before
\* and HOME is still set.
C12_Witness ==
    /\ Returned("clean_env")
    /\ last.res = "Ok"
    /\ last.prefix = SandboxPrefix
    /\ {TargetDirVar, PkgNameVar, HomeVar} \subseteq DOMAIN last.env0
    /\ HomeVar \in DOMAIN env
    /\ TargetDirVar \notin DOMAIN env

\* C13: an operation observes a working directory other than the original
\* one only when the calls are not serialized: with every clean_env
\* serialized with all other operations, with_stdout_file, with_stderr_file
\* and clean_env itself find the original directory, and it is the working
\* directory whenever no call is in progress.
C13_OnlyUnserializedSeesOtherDir ==
    /\ (last.op \in {"with_stdout_file", "with_stderr_file"}
          /\ last.cwd # OrigDir) => ~cfg.serialized
    /\ (\E t \in Threads : th[t].pc # "idle" /\ th[t].cwd0 # OrigDir)
          => ~cfg.serialized
    /\ ((\A t \in Threads : th[t].pc \in {"idle", "panicked"})
          /\ cwd # OrigDir) => ~cfg.serialized

\* Without serialization: with_stdout_file of one thread resolved its
\* relative name while the other thread was between the two
\* set_current_dir calls of clean_env, in that thread's Project directory,
\* and did not find the file.
C13_Witness ==
    /\ ~cfg.serialized
    /\ last.op = "with_stdout_file"
    /\ last.res = "PanicRead"
    /\ \E u \in Threads \ {last.t} :
          /\ th[u].pc \in {"inside", "removed"}
          /\ th[u].cwd0 = OrigDir
          /\ last.cwd = path(ProjectOf(u))

\* C15: under the dev profile, command() starts the executable only if
\* SANDBOX_TARGET_DIR and SANDBOX_PKG_NAME are both set when it is called;
\* a command() with no init() before it, or after a clean_env whose prefix
\* is a prefix of either name and no init() since, returns an error and
\* neither starts nor tries to start a process.
C15_NoSpawnWithoutInit ==
    (Returned("command") /\ cfg.profile = "dev") =>
        /\ last.attempts > 0 =>
              TargetDirVar \in DOMAIN env /\ PkgNameVar \in DOMAIN env
        /\ hist \in {"none", "cleaned"} =>
              last.res = "Err" /\ last.attempts = 0 /\ last.started = 0

\* After init() and clean_env("SANDBOX_T"), command() returned an error
\* although SANDBOX_PKG_NAME is set and the executable could be started.
C15_Witness ==
    /\ Returned("command")
    /\ cfg.profile = "dev"
    /\ hist = "cleaned"
    /\ PkgNameVar \in DOMAIN env
    /\ TargetDirVar \notin DOMAIN env
    /\ last.exeOk
    /\ last.res = "Err"
    /\ last.started = 0

====
